---------------------------- MODULE Spec2Model ----------------------------
(***************************************************************************)
(* NAV erosion tracker: the metrics engine (calculator.py), the store      *)
(* (database.py) and the request handlers that drive them (app.py).        *)
(*                                                                         *)
(* Numbers.  Prices, distributions, thresholds and the derived fractions   *)
(* are Python floats in the source.  They are modelled as exact rationals: *)
(* a pair <<n, d>> in lowest terms with d >= 1.  Dates are ISO strings     *)
(* "YYYY-MM-DD" compared lexicographically; they are modelled as integers  *)
(* with the same order.                                                    *)
(*                                                                         *)
(* Where a claim turns on rounding, the two return functions are modelled  *)
(* a second time with every operation rounded to MantBits significant bits *)
(* (the definitions named _float).                                         *)
(*                                                                         *)
(* Four specifications share the variables:                                *)
(*   SpecArith  the scalar functions: calculate_nav_erosion,               *)
(*              calculate_true_return, get_flag;                           *)
(*   SpecCalc   the series functions: calculate_metrics,                   *)
(*              generate_monthly_breakdown, calculate_distribution_yield;  *)
(*   SpecFloat  calculate_nav_erosion, calculate_true_return and the       *)
(*              returns of calculate_metrics, under rounding;              *)
(*   Spec       the handlers of app.py acting on the store.                *)
(***************************************************************************)
EXTENDS Integers, Sequences, FiniteSets, TLC

VARIABLES
    monthly_data,   \* the observation list handed to the engine
    call,           \* the last engine call: [op, args, result]
    etfs,           \* table etfs: id -> row, for the ids that have one
    snapshots,      \* table snapshots: etf id -> its rows
    metrics,        \* table metrics: etf id -> its rows in insertion order
    in_force,       \* history: etf id -> the thresholds its stored metrics were computed with
    today           \* the wall-clock date datetime.now() reports

vars == <<monthly_data, call, etfs, snapshots, metrics, in_force, today>>

store == <<etfs, snapshots, metrics, in_force, today>>

---------------------------------------------------------------------------
(* Bounds and input domains *)

\* longest observation list handed to the series functions
MaxLen == 3

\* close prices of the observations: negative, zero and two positive ones
Prices == {-1, 0, 1, 2}

\* monthly distributions
Dists == {0, 1}

\* observation dates, as integers ordered like the ISO strings: month * 100 + day
Dates == {131, 229, 331}

\* most months a fetch of the data source returns
MaxMonths == 2

\* last day of the wall clock
MaxDay == 2

\* significant bits of a float where rounding is modelled
MantBits == 3

\* ids the etfs table hands out
EtfIds == {1, 2}

\* tickers asked for; "" is the empty form field
Tickers == {"", "AAA", "BBB"}

\* close prices and distributions the data source reports
FetchPrices == {94, 100}

FetchDists == {1}

---------------------------------------------------------------------------
(* Exact rationals *)

Abs(x) == IF x < 0 THEN -x ELSE x

RECURSIVE GCD(_, _)
GCD(a, b) == IF b = 0 THEN a ELSE GCD(b, a % b)

\* n / d for d # 0, in lowest terms with a positive denominator
Rat(n, d) ==
    LET g == GCD(Abs(n), Abs(d))
        sgn == IF d < 0 THEN -1 ELSE 1
    IN  <<(sgn * n) \div g, Abs(d) \div g>>

Zero == <<0, 1>>

RLeq(a, b) == a[1] * b[2] <= b[1] * a[2]

RLt(a, b) == a[1] * b[2] < b[1] * a[2]

\* thresholds tried by the engine specifications
Thresholds == {Rat(-1, 1), Rat(-1, 2), Zero}

\* erosion values handed to get_flag directly
Erosions == {Rat(n, d) : n \in -3..1, d \in {1, 2}}

---------------------------------------------------------------------------
(* calculator.py *)

None == [none |-> TRUE]

\* the guard tests only for zero: a negative start price is divided by
calculate_nav_erosion_zero_only(start_price, end_price) ==
    IF start_price = 0 THEN Zero
    ELSE Rat(end_price - start_price, start_price)

\* the quotient of the two prices, the subtraction forgotten
calculate_nav_erosion_ratio(start_price, end_price) ==
    IF start_price <= 0 THEN Zero
    ELSE Rat(end_price, start_price)

calculate_nav_erosion(start_price, end_price) ==
    IF start_price <= 0 THEN Zero
    ELSE Rat(end_price - start_price, start_price)

\* the gross value returned per unit invested, the start price not deducted
calculate_true_return_gross(start_price, end_price, total_distributions) ==
    IF start_price <= 0 THEN Zero
    ELSE Rat(end_price + total_distributions, start_price)

calculate_true_return(start_price, end_price, total_distributions) ==
    IF start_price <= 0 THEN Zero
    ELSE Rat((end_price - start_price) + total_distributions, start_price)

\* both comparisons exclusive
get_flag_exclusive(nav_erosion_pct, warn_threshold, sell_threshold) ==
    IF RLt(nav_erosion_pct, sell_threshold) THEN "SELL"
    ELSE IF RLt(nav_erosion_pct, warn_threshold) THEN "WARNING"
    ELSE "OK"

\* the thresholds put in order before they are applied
get_flag_reordered(nav_erosion_pct, warn_threshold, sell_threshold) ==
    LET lo == IF RLeq(sell_threshold, warn_threshold) THEN sell_threshold ELSE warn_threshold
        hi == IF RLeq(sell_threshold, warn_threshold) THEN warn_threshold ELSE sell_threshold
    IN  IF RLeq(nav_erosion_pct, lo) THEN "SELL"
        ELSE IF RLeq(nav_erosion_pct, hi) THEN "WARNING"
        ELSE "OK"

get_flag(nav_erosion_pct, warn_threshold, sell_threshold) ==
    IF RLeq(nav_erosion_pct, sell_threshold) THEN "SELL"
    ELSE IF RLeq(nav_erosion_pct, warn_threshold) THEN "WARNING"
    ELSE "OK"

\* an observation: one of monthly_data's dicts; the lists tried pay a
\* distribution only at a positive close price
Observations ==
    {o \in [date : Dates, close_price : Prices, distribution : Dists] :
        o.close_price > 0 \/ o.distribution = 0}

\* the place of x in the date-sorted s: after every element dated no later
InsertByDate(x, s) ==
    LET k == Cardinality({j \in 1..Len(s) : s[j].date <= x.date})
    IN  SubSeq(s, 1, k) \o <<x>> \o SubSeq(s, k + 1, Len(s))

\* the list as it came, not sorted
sorted_not(s) == s

\* sorted(monthly_data, key=lambda x: x['date']): ascending, ties in input order
RECURSIVE sorted(_)
sorted(s) ==
    IF s = <<>> THEN <<>>
    ELSE InsertByDate(s[Len(s)], sorted(SubSeq(s, 1, Len(s) - 1)))

\* the distributions of the two endpoints only
sum_distribution_endpoints(s) ==
    IF s = <<>> THEN 0
    ELSE IF Len(s) = 1 THEN s[1].distribution
    ELSE s[1].distribution + s[Len(s)].distribution

\* sum(d['distribution'] for d in sorted_data)
RECURSIVE sum_distribution(_)
sum_distribution(s) ==
    IF s = <<>> THEN 0
    ELSE s[1].distribution + sum_distribution(Tail(s))

\* data['date'][:7], the year-month of a date
MonthOf(date) == date \div 100

\* whether calculate_metrics has too few observations for a window
insufficient_data_empty_only(data) == Len(data) < 1

insufficient_data(data) == Len(data) < 2

\* the window closed on the day of the evaluation, not on the last observation
calculate_metrics_window_to_now(data, warn_threshold, sell_threshold, now) ==
    IF insufficient_data(data) THEN None
    ELSE
        LET sorted_data == sorted(data)
            start_price == sorted_data[1].close_price
            end_price == sorted_data[Len(sorted_data)].close_price
            total_distributions == sum_distribution(sorted_data)
            nav_erosion_pct == calculate_nav_erosion(start_price, end_price)
            true_return_pct ==
                calculate_true_return(start_price, end_price, total_distributions)
            flag == get_flag(nav_erosion_pct, warn_threshold, sell_threshold)
        IN  [calc_date |-> now,
             window_start |-> sorted_data[1].date,
             window_end |-> now,
             start_price |-> start_price,
             end_price |-> end_price,
             total_distributions |-> total_distributions,
             nav_erosion_pct |-> nav_erosion_pct,
             true_return_pct |-> true_return_pct,
             flag |-> flag]

\* the caller's list once calculate_metrics has returned: sorted() builds a
\* new list and nothing is assigned into monthly_data
monthly_data_after(data) == data

calculate_metrics(data, warn_threshold, sell_threshold, now) ==
    IF insufficient_data(data) THEN None
    ELSE
        LET sorted_data == sorted(data)
            start_price == sorted_data[1].close_price
            end_price == sorted_data[Len(sorted_data)].close_price
            total_distributions == sum_distribution(sorted_data)
            nav_erosion_pct == calculate_nav_erosion(start_price, end_price)
            true_return_pct ==
                calculate_true_return(start_price, end_price, total_distributions)
            flag == get_flag(nav_erosion_pct, warn_threshold, sell_threshold)
        IN  [calc_date |-> now,
             window_start |-> sorted_data[1].date,
             window_end |-> sorted_data[Len(sorted_data)].date,
             start_price |-> start_price,
             end_price |-> end_price,
             total_distributions |-> total_distributions,
             nav_erosion_pct |-> nav_erosion_pct,
             true_return_pct |-> true_return_pct,
             flag |-> flag]

\* every row measured from the row before it, not from the first
generate_monthly_breakdown_previous(data) ==
    IF data = <<>> THEN <<>>
    ELSE
        LET sorted_data == sorted(data)
        IN  [i \in 1..Len(sorted_data) |->
                [month |-> MonthOf(sorted_data[i].date),
                 date |-> sorted_data[i].date,
                 close_price |-> sorted_data[i].close_price,
                 distribution |-> sorted_data[i].distribution,
                 cumulative_erosion_pct |->
                     calculate_nav_erosion(
                         sorted_data[IF i = 1 THEN 1 ELSE i - 1].close_price,
                         sorted_data[i].close_price)]]

\* fewer than two observations give no rows, as they give no snapshot
generate_monthly_breakdown_two_needed(data) ==
    IF Len(data) < 2 THEN <<>>
    ELSE
        LET sorted_data == sorted(data)
            start_price == sorted_data[1].close_price
        IN  [i \in 1..Len(sorted_data) |->
                [month |-> MonthOf(sorted_data[i].date),
                 date |-> sorted_data[i].date,
                 close_price |-> sorted_data[i].close_price,
                 distribution |-> sorted_data[i].distribution,
                 cumulative_erosion_pct |->
                     calculate_nav_erosion(start_price, sorted_data[i].close_price)]]

generate_monthly_breakdown(data) ==
    IF data = <<>> THEN <<>>
    ELSE
        LET sorted_data == sorted(data)
            start_price == sorted_data[1].close_price
        IN  [i \in 1..Len(sorted_data) |->
                [month |-> MonthOf(sorted_data[i].date),
                 date |-> sorted_data[i].date,
                 close_price |-> sorted_data[i].close_price,
                 distribution |-> sorted_data[i].distribution,
                 cumulative_erosion_pct |->
                     calculate_nav_erosion(start_price, sorted_data[i].close_price)]]

\* q * k and q / k for a rational q and an integer k
RTimes(q, k) == Rat(q[1] * k, q[2])

RDiv(q, k) == Rat(q[1], q[2] * k)

\* the average set against the first close price, not the latest
calculate_distribution_yield_first_price(data) ==
    IF data = <<>> THEN Zero
    ELSE
        LET sorted_data == sorted(data)
            total_distributions == sum_distribution(sorted_data)
            months == Len(sorted_data)
            current_price == sorted_data[1].close_price
        IN  IF current_price <= 0 \/ months = 0 THEN Zero
            ELSE
                LET monthly_avg == Rat(total_distributions, months)
                    annual_distributions == RTimes(monthly_avg, 12)
                IN  RDiv(annual_distributions, current_price)

calculate_distribution_yield(data) ==
    IF data = <<>> THEN Zero
    ELSE
        LET sorted_data == sorted(data)
            total_distributions == sum_distribution(sorted_data)
            months == Len(sorted_data)
            current_price == sorted_data[Len(sorted_data)].close_price
        IN  IF current_price <= 0 \/ months = 0 THEN Zero
            ELSE
                LET monthly_avg == Rat(total_distributions, months)
                    annual_distributions == RTimes(monthly_avg, 12)
                IN  RDiv(annual_distributions, current_price)

---------------------------------------------------------------------------
(* calculator.py under rounding.  A Python float keeps 53 significant bits  *)
(* and every operation returns the float nearest to the exact result, ties   *)
(* to the even significand.  Here a float keeps MantBits significant bits;   *)
(* its value is still written as a rational.                                 *)

RECURSIVE Pow2(_)
Pow2(k) == IF k = 0 THEN 1 ELSE 2 * Pow2(k - 1)

\* num / den brought into [2^(MantBits-1), 2^MantBits) by a power of two:
\* <<num', den', x>> with num / den = (num' / den') * 2^x
RECURSIVE Scale(_, _, _)
Scale(num, den, x) ==
    IF num >= Pow2(MantBits) * den THEN Scale(num, 2 * den, x + 1)
    ELSE IF num < Pow2(MantBits - 1) * den THEN Scale(2 * num, den, x - 1)
    ELSE <<num, den, x>>

\* the float nearest to the rational q
fl(q) ==
    IF q[1] = 0 THEN Zero
    ELSE
        LET sc == Scale(Abs(q[1]), q[2], 0)
            m0 == sc[1] \div sc[2]
            r == sc[1] % sc[2]
            m == IF 2 * r > sc[2] THEN m0 + 1
                 ELSE IF 2 * r < sc[2] THEN m0
                 ELSE IF m0 % 2 = 0 THEN m0 ELSE m0 + 1
            sign == IF q[1] < 0 THEN -1 ELSE 1
        IN  IF sc[3] >= 0 THEN Rat(sign * m * Pow2(sc[3]), 1)
            ELSE Rat(sign * m, Pow2(-sc[3]))

\* a + b, a - b and a / b of two floats, rounded
fadd(a, b) == fl(Rat(a[1] * b[2] + b[1] * a[2], a[2] * b[2]))

fsub(a, b) == fl(Rat(a[1] * b[2] - b[1] * a[2], a[2] * b[2]))

fdiv(a, b) == fl(Rat(a[1] * b[2], a[2] * b[1]))

calculate_nav_erosion_float(start_price, end_price) ==
    IF RLeq(start_price, Zero) THEN Zero
    ELSE fdiv(fsub(end_price, start_price), start_price)

\* the distributions deducted from the price change, not added to it
calculate_true_return_float_deducted(start_price, end_price, total_distributions) ==
    IF RLeq(start_price, Zero) THEN Zero
    ELSE fdiv(fsub(fsub(end_price, start_price), total_distributions), start_price)

calculate_true_return_float(start_price, end_price, total_distributions) ==
    IF RLeq(start_price, Zero) THEN Zero
    ELSE fdiv(fadd(fsub(end_price, start_price), total_distributions), start_price)

\* sum(d['distribution'] for d in sorted_data): from 0, left to right
RECURSIVE sum_distribution_float(_)
sum_distribution_float(s) ==
    IF s = <<>> THEN Zero
    ELSE fadd(sum_distribution_float(SubSeq(s, 1, Len(s) - 1)), s[Len(s)].distribution)

\* the prices, the total and the two returns calculate_metrics derives from
\* the list it has sorted
calculate_metrics_float(sorted_data) ==
    LET start_price == sorted_data[1].close_price
        end_price == sorted_data[Len(sorted_data)].close_price
        total_distributions == sum_distribution_float(sorted_data)
    IN  [start_price |-> start_price,
         end_price |-> end_price,
         total_distributions |-> total_distributions,
         nav_erosion_pct |-> calculate_nav_erosion_float(start_price, end_price),
         true_return_pct |->
             calculate_true_return_float(start_price, end_price, total_distributions)]

---------------------------------------------------------------------------
(* database.py: the tables and the operations on them *)

\* warn_threshold REAL DEFAULT -0.06, sell_threshold REAL DEFAULT -0.10
DefaultWarn == Rat(-6, 100)

DefaultSell == Rat(-10, 100)

Max(S) == CHOOSE x \in S : \A y \in S : y <= x

\* the rowid an INSERT into etfs gets: one more than the largest in the table
next_etf_id(t) == IF DOMAIN t = {} THEN 1 ELSE Max(DOMAIN t) + 1

ticker_in_use(t, ticker) == \E i \in DOMAIN t : t[i].ticker = ticker

add_etf(t, ticker) ==
    [i \in DOMAIN t \cup {next_etf_id(t)} |->
        IF i \in DOMAIN t THEN t[i]
        ELSE [ticker |-> ticker,
              warn_threshold |-> DefaultWarn,
              sell_threshold |-> DefaultSell]]

get_etf(t, etf_id) == IF etf_id \in DOMAIN t THEN t[etf_id] ELSE None

\* INSERT OR REPLACE under UNIQUE(etf_id, snapshot_date)
save_snapshot(t, etf_id, date, close_price, distribution) ==
    [t EXCEPT ![etf_id] =
        {r \in @ : r.snapshot_date # date}
            \cup {[snapshot_date |-> date,
                   close_price |-> close_price,
                   distribution |-> distribution]}]

save_metrics(t, etf_id, metrics_dict) ==
    [t EXCEPT ![etf_id] =
        Append(@, [calc_date |-> metrics_dict.calc_date,
                   window_start |-> metrics_dict.window_start,
                   window_end |-> metrics_dict.window_end,
                   start_price |-> metrics_dict.start_price,
                   end_price |-> metrics_dict.end_price,
                   total_distributions |-> metrics_dict.total_distributions,
                   nav_erosion_pct |-> metrics_dict.nav_erosion_pct,
                   true_return_pct |-> metrics_dict.true_return_pct,
                   flag |-> metrics_dict.flag])]

\* the rows ORDER BY calc_date DESC LIMIT 1 may return: SQL leaves the order
\* of rows with equal calc_date open
latest_metrics(t, etf_id) ==
    {t[etf_id][i] : i \in {j \in 1..Len(t[etf_id]) :
        \A k \in 1..Len(t[etf_id]) : t[etf_id][k].calc_date <= t[etf_id][j].calc_date}}

\* get_latest_metrics: what a caller may get, None when the etf has no row
get_latest_metrics(t, etf_id) ==
    IF t[etf_id] = <<>> THEN {None} ELSE latest_metrics(t, etf_id)

\* UPDATE etfs SET ... without the WHERE clause: every row is written
update_etf_thresholds_every_row(t, etf_id, warn_threshold, sell_threshold) ==
    [i \in DOMAIN t |-> [t[i] EXCEPT !.warn_threshold = warn_threshold,
                                     !.sell_threshold = sell_threshold]]

update_etf_thresholds(t, etf_id, warn_threshold, sell_threshold) ==
    IF etf_id \in DOMAIN t
        THEN [t EXCEPT ![etf_id].warn_threshold = warn_threshold,
                       ![etf_id].sell_threshold = sell_threshold]
        ELSE t

\* DELETE FROM metrics / snapshots WHERE etf_id = ?
clear_rows(t, etf_id, empty) == [t EXCEPT ![etf_id] = empty]

Without(f, x) == [i \in DOMAIN f \ {x} |-> f[i]]

With(f, x, v) == [i \in DOMAIN f \cup {x} |-> IF i = x THEN v ELSE f[i]]

---------------------------------------------------------------------------
(* fetcher.py: what get_monthly_data may return *)

\* the last trading day of month i
MonthEnd(i) == i * 100 + 28

FetchFailure == [success |-> FALSE, monthly_data |-> <<>>]

\* one row per month, months ascending, at least one month
FetchedSeries ==
    UNION {
        {[i \in 1..k |-> [date |-> MonthEnd(i),
                          close_price |-> p[i],
                          distribution |-> d[i]]] :
            p \in [1..k -> FetchPrices], d \in [1..k -> FetchDists]} :
        k \in 1..MaxMonths}

get_monthly_data ==
    {FetchFailure} \cup {[success |-> TRUE, monthly_data |-> m] : m \in FetchedSeries}

---------------------------------------------------------------------------
(* app.py: the handlers *)

\* the four tables a handler reads and writes, as one value
TheStore ==
    [etfs |-> etfs, snapshots |-> snapshots, metrics |-> metrics, in_force |-> in_force]

RECURSIVE save_snapshots(_, _, _)
save_snapshots(t, etf_id, data) ==
    IF data = <<>> THEN t
    ELSE save_snapshots(
            save_snapshot(t, etf_id, data[1].date, data[1].close_price,
                          data[1].distribution),
            etf_id, Tail(data))

\* the thresholds of the etf's row are not handed on: the defaults apply
refresh_metrics_defaults(etf, data, now) ==
    calculate_metrics(data, DefaultWarn, DefaultSell, now)

refresh_metrics(etf, data, now) ==
    calculate_metrics(data, etf.warn_threshold, etf.sell_threshold, now)

\* the etf's rows deleted as soon as the etf is found, before the fetch is
\* looked at
refresh_etf_data_clear_first(st, etf_id, data, now) ==
    LET etf == get_etf(st.etfs, etf_id)
    IN  IF etf = None THEN [store |-> st, success |-> FALSE]
        ELSE
            LET cleared_metrics == clear_rows(st.metrics, etf_id, <<>>)
                cleared_snapshots == clear_rows(st.snapshots, etf_id, {})
                saved == save_snapshots(cleared_snapshots, etf_id, data.monthly_data)
                m == refresh_metrics(etf, data.monthly_data, now)
            IN  IF ~data.success
                THEN [store |->
                        [etfs |-> st.etfs,
                         snapshots |-> cleared_snapshots,
                         metrics |-> cleared_metrics,
                         in_force |-> Without(st.in_force, etf_id)],
                      success |-> FALSE]
                ELSE [store |->
                        [etfs |-> st.etfs,
                         snapshots |-> saved,
                         metrics |-> IF m # None
                                     THEN save_metrics(cleared_metrics, etf_id, m)
                                     ELSE cleared_metrics,
                         in_force |-> IF m # None
                                      THEN With(st.in_force, etf_id,
                                                <<etf.warn_threshold, etf.sell_threshold>>)
                                      ELSE Without(st.in_force, etf_id)],
                      success |-> TRUE]

\* _refresh_etf_data: the store it leaves and the success it reports
refresh_etf_data(st, etf_id, data, now) ==
    LET etf == get_etf(st.etfs, etf_id)
    IN  IF etf = None THEN [store |-> st, success |-> FALSE]
        ELSE IF ~data.success THEN [store |-> st, success |-> FALSE]
        ELSE
            LET cleared_metrics == clear_rows(st.metrics, etf_id, <<>>)
                cleared_snapshots == clear_rows(st.snapshots, etf_id, {})
                saved == save_snapshots(cleared_snapshots, etf_id, data.monthly_data)
                m == refresh_metrics(etf, data.monthly_data, now)
            IN  [store |->
                    [etfs |-> st.etfs,
                     snapshots |-> saved,
                     metrics |-> IF m # None THEN save_metrics(cleared_metrics, etf_id, m)
                                 ELSE cleared_metrics,
                     in_force |-> IF m # None
                                  THEN With(st.in_force, etf_id,
                                            <<etf.warn_threshold, etf.sell_threshold>>)
                                  ELSE Without(st.in_force, etf_id)],
                 success |-> TRUE]

SetStore(st) ==
    /\ etfs' = st.etfs
    /\ snapshots' = st.snapshots
    /\ metrics' = st.metrics
    /\ in_force' = st.in_force

\* POST /add
AddEtf(ticker, info_success) ==
    /\ next_etf_id(etfs) \in EtfIds
    /\ IF ticker = "" \/ ~info_success \/ ticker_in_use(etfs, ticker)
        THEN UNCHANGED etfs
        ELSE etfs' = add_etf(etfs, ticker)
    /\ UNCHANGED <<snapshots, metrics, in_force>>
    /\ UNCHANGED <<monthly_data, call, today>>

\* POST /delete/<etf_id>
DeleteEtf(etf_id) ==
    /\ IF get_etf(etfs, etf_id) # None
        THEN /\ metrics' = clear_rows(metrics, etf_id, <<>>)
             /\ snapshots' = clear_rows(snapshots, etf_id, {})
             /\ etfs' = Without(etfs, etf_id)
             /\ in_force' = Without(in_force, etf_id)
        ELSE UNCHANGED <<etfs, snapshots, metrics, in_force>>
    /\ UNCHANGED <<monthly_data, call, today>>

\* GET /refresh/<etf_id>, and each turn of the loop of GET /refresh, which calls
\* _refresh_etf_data once per etf, every call with its own fetch and its own
\* transactions
RefreshEtf(etf_id, data) ==
    /\ SetStore(refresh_etf_data(TheStore, etf_id, data, today).store)
    /\ UNCHANGED <<monthly_data, call, today>>

\* what a settings form sends: warn and sell in percent, and whether both
\* fields parse as floats
FormThresholds ==
    {[warn |-> -6, sell |-> -10, valid |-> TRUE],
     [warn |-> -10, sell |-> -6, valid |-> TRUE],
     [warn |-> -6, sell |-> -10, valid |-> FALSE]}

\* POST /settings/etf/<etf_id>
UpdateEtfSettings(etf_id, form) ==
    /\ IF form.valid
        THEN etfs' = update_etf_thresholds(etfs, etf_id,
                                           Rat(form.warn, 100), Rat(form.sell, 100))
        ELSE UNCHANGED etfs
    /\ UNCHANGED <<snapshots, metrics, in_force, monthly_data, call, today>>

\* midnight
AdvanceDay ==
    /\ today < MaxDay
    /\ today' = today + 1
    /\ UNCHANGED <<monthly_data, call, etfs, snapshots, metrics, in_force>>

\* the tables after init_db on a new database file
StoreEmpty ==
    /\ etfs = <<>>
    /\ snapshots = [i \in EtfIds |-> {}]
    /\ metrics = [i \in EtfIds |-> <<>>]
    /\ in_force = <<>>
    /\ today = 1

NoCall == [op |-> "none", args |-> <<>>, result |-> None]

Init ==
    /\ monthly_data = <<>>
    /\ call = NoCall
    /\ StoreEmpty

Next ==
    \/ \E ticker \in Tickers, info_success \in BOOLEAN : AddEtf(ticker, info_success)
    \/ \E etf_id \in EtfIds : DeleteEtf(etf_id)
    \/ \E etf_id \in EtfIds, data \in get_monthly_data : RefreshEtf(etf_id, data)
    \/ \E etf_id \in EtfIds, form \in FormThresholds : UpdateEtfSettings(etf_id, form)
    \/ AdvanceDay

Spec == Init /\ [][Next]_vars

---------------------------------------------------------------------------
(* The engine called on its own *)

\* every observation list of at most n elements
ListsUpTo(n) == UNION {[1..k -> Observations] : k \in 0..n}

\* the threshold pairs <<warn, sell>> handed to calculate_metrics: in order,
\* misconfigured (sell above warn) and equal
ThresholdPairs ==
    {<<Rat(-1, 2), Rat(-1, 1)>>, <<Rat(-1, 1), Rat(-1, 2)>>, <<Zero, Zero>>}

InitArith ==
    /\ monthly_data = <<>>
    /\ call = NoCall
    /\ StoreEmpty

CallNavErosion ==
    /\ \E s \in Prices, e \in Prices :
        call' = [op |-> "calculate_nav_erosion", args |-> <<s, e>>,
                 result |-> calculate_nav_erosion(s, e)]
    /\ UNCHANGED <<monthly_data, store>>

CallTrueReturn ==
    /\ \E s \in Prices, e \in Prices, t \in 0..2 :
        call' = [op |-> "calculate_true_return", args |-> <<s, e, t>>,
                 result |-> calculate_true_return(s, e, t)]
    /\ UNCHANGED <<monthly_data, store>>

CallGetFlag ==
    /\ \E e \in Erosions, warn \in Thresholds, sell \in Thresholds :
        call' = [op |-> "get_flag", args |-> <<e, warn, sell>>,
                 result |-> get_flag(e, warn, sell)]
    /\ UNCHANGED <<monthly_data, store>>

NextArith == CallNavErosion \/ CallTrueReturn \/ CallGetFlag

SpecArith == InitArith /\ [][NextArith]_vars

InitCalc ==
    /\ monthly_data \in ListsUpTo(MaxLen)
    /\ call = NoCall
    /\ StoreEmpty

CallCalculateMetrics ==
    /\ \E pair \in ThresholdPairs :
        call' = [op |-> "calculate_metrics", args |-> pair,
                 result |-> calculate_metrics(monthly_data, pair[1], pair[2], today)]
    /\ monthly_data' = monthly_data_after(monthly_data)
    /\ UNCHANGED store

CallGenerateMonthlyBreakdown ==
    /\ call' = [op |-> "generate_monthly_breakdown", args |-> <<>>,
                result |-> generate_monthly_breakdown(monthly_data)]
    /\ UNCHANGED <<monthly_data, store>>

CallCalculateDistributionYield ==
    /\ call' = [op |-> "calculate_distribution_yield", args |-> <<>>,
                result |-> calculate_distribution_yield(monthly_data)]
    /\ UNCHANGED <<monthly_data, store>>

NextCalc ==
    \/ CallCalculateMetrics
    \/ CallGenerateMonthlyBreakdown
    \/ CallCalculateDistributionYield

SpecCalc == InitCalc /\ [][NextCalc]_vars

\* floats for prices and distributions, each exact in MantBits bits
FloatPrices == {Zero, Rat(1, 1), Rat(4, 1), Rat(5, 1)}

FloatDists == {Zero, Rat(1, 8), Rat(1, 4), Rat(1, 1)}

\* date-sorted lists of two observations, the fewest calculate_metrics
\* takes, the dates left out
FloatSeries == [1..2 -> [close_price : FloatPrices, distribution : FloatDists]]

InitFloat ==
    /\ monthly_data = <<>>
    /\ call = NoCall
    /\ StoreEmpty

CallNavErosionFloat ==
    /\ \E s \in FloatPrices, e \in FloatPrices :
        call' = [op |-> "calculate_nav_erosion", args |-> <<s, e>>,
                 result |-> calculate_nav_erosion_float(s, e)]
    /\ UNCHANGED <<monthly_data, store>>

CallTrueReturnFloat ==
    /\ \E s \in FloatPrices, e \in FloatPrices, t \in FloatDists :
        call' = [op |-> "calculate_true_return", args |-> <<s, e, t>>,
                 result |-> calculate_true_return_float(s, e, t)]
    /\ UNCHANGED <<monthly_data, store>>

CallCalculateMetricsFloat ==
    /\ \E sorted_data \in FloatSeries :
        call' = [op |-> "calculate_metrics", args |-> <<sorted_data>>,
                 result |-> calculate_metrics_float(sorted_data)]
    /\ UNCHANGED <<monthly_data, store>>

NextFloat == CallNavErosionFloat \/ CallTrueReturnFloat \/ CallCalculateMetricsFloat

SpecFloat == InitFloat /\ [][NextFloat]_vars

---------------------------------------------------------------------------
(* Properties *)

\* the injective maps of 1..n onto itself
Perms(n) == {f \in [1..n -> 1..n] : \A i, j \in 1..n : f[i] = f[j] => i = j}

Permuted(s, f) == [i \in 1..Len(s) |-> s[f[i]]]

UniqueDates(s) == \A i, j \in 1..Len(s) : s[i].date = s[j].date => i = j

\* the index of the earliest-dated observation, the first of them in the list
Earliest(s) ==
    CHOOSE i \in 1..Len(s) :
        \A j \in 1..Len(s) : s[i].date < s[j].date \/ (s[i].date = s[j].date /\ i <= j)

\* the index of the latest-dated observation, the last of them in the list
Latest(s) ==
    CHOOSE i \in 1..Len(s) :
        \A j \in 1..Len(s) : s[j].date < s[i].date \/ (s[i].date = s[j].date /\ j <= i)

\* the distributions of s[1..n] added up
RECURSIVE TotalTo(_, _)
TotalTo(s, n) == IF n = 0 THEN 0 ELSE TotalTo(s, n - 1) + s[n].distribution

Flags == {"OK", "WARNING", "SELL"}

\* C1: get_flag(e, warn, sell) is SELL when e <= sell, otherwise WARNING when
\* e <= warn, otherwise OK; both comparisons include the threshold itself.
C1_GetFlagInclusive ==
    call.op = "get_flag" =>
        LET e == call.args[1]
            warn == call.args[2]
            sell == call.args[3]
        IN  /\ ~RLt(sell, e) => call.result = "SELL"
            /\ (RLt(sell, e) /\ ~RLt(warn, e)) => call.result = "WARNING"
            /\ (RLt(sell, e) /\ RLt(warn, e)) => call.result = "OK"

\* get_flag answered WARNING for an erosion equal to warn and above sell
C1_Witness ==
    /\ call.op = "get_flag"
    /\ call.args[1] = call.args[2]
    /\ RLt(call.args[3], call.args[1])
    /\ call.result = "WARNING"

\* C2: calculate_metrics returns None for an empty list and for a list of one
\* observation, whatever its content and the thresholds, and a snapshot for a
\* list of two or more.
C2_InsufficientData ==
    call.op = "calculate_metrics" =>
        /\ Len(monthly_data) <= 1 => call.result = None
        /\ Len(monthly_data) >= 2 =>
            /\ call.result # None
            /\ call.result.flag \in Flags

\* calculate_metrics answered None for one observation with a price of zero
C2_Witness ==
    /\ call.op = "calculate_metrics"
    /\ Len(monthly_data) = 1
    /\ monthly_data[1].close_price = 0
    /\ call.args[2] = Zero
    /\ call.result = None

\* C3: for two or more observations with unique dates the snapshot's window
\* starts at the earliest-dated observation and ends at the latest-dated one,
\* total_distributions adds up the distributions of all observations, and
\* erosion, true return and flag are the three functions applied to these.
C3_SnapshotFields ==
    (/\ call.op = "calculate_metrics"
     /\ Len(monthly_data) >= 2
     /\ UniqueDates(monthly_data)) =>
        LET first == monthly_data[Earliest(monthly_data)]
            final == monthly_data[Latest(monthly_data)]
            total == TotalTo(monthly_data, Len(monthly_data))
            r == call.result
        IN  /\ r # None
            /\ r.window_start = first.date
            /\ r.start_price = first.close_price
            /\ r.window_end = final.date
            /\ r.end_price = final.close_price
            /\ r.total_distributions = total
            /\ r.nav_erosion_pct =
                  calculate_nav_erosion(first.close_price, final.close_price)
            /\ r.true_return_pct =
                  calculate_true_return(first.close_price, final.close_price, total)
            /\ r.flag = get_flag(r.nav_erosion_pct, call.args[1], call.args[2])

\* a snapshot of three observations given latest first, the middle one paying
C3_Witness ==
    /\ call.op = "calculate_metrics"
    /\ Len(monthly_data) = 3
    /\ UniqueDates(monthly_data)
    /\ Earliest(monthly_data) = 3
    /\ Latest(monthly_data) = 1
    /\ monthly_data[2].distribution = 1
    /\ monthly_data[1].distribution = 0
    /\ monthly_data[3].distribution = 0
    /\ call.result # None
    /\ call.result.total_distributions = 1
    /\ call.result.flag = "WARNING"

\* C4, as claimed: calculate_metrics and generate_monthly_breakdown give the
\* same result for every permutation of the same observation list.
C4_OrderIndependent ==
    \A f \in Perms(Len(monthly_data)) :
        /\ call.op = "calculate_metrics" =>
            calculate_metrics(Permuted(monthly_data, f), call.args[1], call.args[2], today)
                = call.result
        /\ call.op = "generate_monthly_breakdown" =>
            generate_monthly_breakdown(Permuted(monthly_data, f)) = call.result

\* C4, amended: the two functions give the same result for every permutation
\* of an observation list whose dates are unique.
C4_OrderIndependentUniqueDates ==
    UniqueDates(monthly_data) => C4_OrderIndependent

\* a snapshot of three observations with unique dates given out of order
C4_Witness ==
    /\ call.op = "calculate_metrics"
    /\ Len(monthly_data) = 3
    /\ UniqueDates(monthly_data)
    /\ monthly_data[1].date > monthly_data[2].date
    /\ monthly_data[1].close_price # monthly_data[3].close_price
    /\ call.result # None
    /\ call.result.nav_erosion_pct # Zero

\* C5: for every start price that is zero or negative calculate_nav_erosion
\* and calculate_true_return return 0 whatever the other arguments, and a
\* snapshot of a series whose earliest price is zero or negative has
\* nav_erosion_pct = 0 and true_return_pct = 0.
C5_NonPositiveStart ==
    /\ \A s \in Prices, e \in Prices, t \in 0..MaxLen :
        s <= 0 =>
            /\ calculate_nav_erosion(s, e) = Zero
            /\ calculate_true_return(s, e, t) = Zero
    /\ (/\ call.op = "calculate_metrics"
        /\ Len(monthly_data) >= 2
        /\ \A i \in 1..Len(monthly_data) :
              monthly_data[i].date = monthly_data[Earliest(monthly_data)].date
                  => monthly_data[i].close_price <= 0) =>
            /\ call.result # None
            /\ call.result.nav_erosion_pct = Zero
            /\ call.result.true_return_pct = Zero

\* a snapshot of a series that starts at a negative price, ends at a positive
\* one and pays distributions
C5_Witness ==
    /\ call.op = "calculate_metrics"
    /\ Len(monthly_data) >= 2
    /\ UniqueDates(monthly_data)
    /\ call.result # None
    /\ call.result.start_price < 0
    /\ call.result.end_price > 0
    /\ call.result.total_distributions > 0
    /\ call.result.nav_erosion_pct = Zero
    /\ call.result.true_return_pct = Zero

\* C6: with sell_threshold above warn_threshold get_flag still tests
\* sell_threshold first and applies the thresholds as given: every erosion
\* above warn_threshold and at most sell_threshold is SELL.
C6_MisconfiguredThresholds ==
    (/\ call.op = "get_flag"
     /\ RLt(call.args[2], call.args[3])
     /\ RLt(call.args[2], call.args[1])
     /\ RLeq(call.args[1], call.args[3])) =>
        call.result = "SELL"

\* get_flag answered SELL for an erosion strictly between warn and sell
C6_Witness ==
    /\ call.op = "get_flag"
    /\ RLt(call.args[2], call.args[1])
    /\ RLt(call.args[1], call.args[3])
    /\ call.result = "SELL"

IsPrefix(s, t) == Len(s) <= Len(t) /\ SubSeq(t, 1, Len(s)) = s

\* C7, as claimed: a refresh of an etf only appends to the etf's metrics rows:
\* every row stored before the refresh is still there after it, unaltered.
C7_HistoryAppendOnly ==
    [][\A etf_id \in EtfIds :
          (\E data \in get_monthly_data : RefreshEtf(etf_id, data))
              => IsPrefix(metrics[etf_id], metrics'[etf_id])]_vars

\* C8: the flag of the metrics row that get_latest_metrics returns is the flag
\* get_flag derives from the row's nav_erosion_pct and the etf's thresholds, as
\* long as these are the thresholds the row was computed with.
C8_FlagRoundTrip ==
    \A etf_id \in DOMAIN etfs :
        \A m \in get_latest_metrics(metrics, etf_id) :
            (/\ m # None
             /\ etf_id \in DOMAIN in_force
             /\ in_force[etf_id]
                  = <<etfs[etf_id].warn_threshold, etfs[etf_id].sell_threshold>>) =>
                get_flag(m.nav_erosion_pct,
                         etfs[etf_id].warn_threshold,
                         etfs[etf_id].sell_threshold) = m.flag

\* an etf whose thresholds were set in a settings form and whose reloaded
\* snapshot, computed after that, carries SELL
C8_Witness ==
    \E etf_id \in DOMAIN etfs :
        /\ etfs[etf_id].sell_threshold # DefaultSell
        /\ etf_id \in DOMAIN in_force
        /\ in_force[etf_id]
              = <<etfs[etf_id].warn_threshold, etfs[etf_id].sell_threshold>>
        /\ \E m \in get_latest_metrics(metrics, etf_id) :
              m # None /\ m.flag = "SELL" /\ m.calc_date = MaxDay

\* C9: generate_monthly_breakdown returns one row per observation, in ascending
\* date order, each row carrying its observation's date, close_price and
\* distribution, and a cumulative_erosion_pct of calculate_nav_erosion(p0,
\* row.close_price), p0 the close price of the series' earliest-dated observation.
C9_BreakdownRows ==
    call.op = "generate_monthly_breakdown" =>
        LET rows == call.result
            n == Len(monthly_data)
        IN  /\ Len(rows) = n
            /\ \A i \in 1..n : \A j \in 1..n : i < j => rows[i].date <= rows[j].date
            /\ \E f \in Perms(n) :
                  \A i \in 1..n :
                      /\ rows[i].date = monthly_data[f[i]].date
                      /\ rows[i].close_price = monthly_data[f[i]].close_price
                      /\ rows[i].distribution = monthly_data[f[i]].distribution
            /\ \A i \in 1..n :
                  rows[i].cumulative_erosion_pct =
                      calculate_nav_erosion(
                          monthly_data[Earliest(monthly_data)].close_price,
                          rows[i].close_price)

\* a breakdown of three observations given out of order whose last row's
\* erosion from the first price differs from its erosion from the row before
C9_Witness ==
    /\ call.op = "generate_monthly_breakdown"
    /\ Len(monthly_data) = 3
    /\ UniqueDates(monthly_data)
    /\ Earliest(monthly_data) = 2
    /\ call.result[1].close_price = 2
    /\ call.result[2].close_price = 1
    /\ call.result[3].close_price = 2
    /\ call.result[3].cumulative_erosion_pct = Zero
    /\ call.result[2].cumulative_erosion_pct = Rat(-1, 2)

\* C10: the first row of the breakdown of a non-empty list has a
\* cumulative_erosion_pct of 0, also when the earliest price is zero or negative.
C10_FirstRowZero ==
    (call.op = "generate_monthly_breakdown" /\ monthly_data # <<>>) =>
        call.result[1].cumulative_erosion_pct = Zero

\* a breakdown whose first row has a positive price and whose second row has not
\* a cumulative erosion of 0
C10_Witness ==
    /\ call.op = "generate_monthly_breakdown"
    /\ Len(monthly_data) >= 2
    /\ call.result[1].close_price > 0
    /\ call.result[1].cumulative_erosion_pct = Zero
    /\ call.result[2].cumulative_erosion_pct # Zero

\* C11: for every start price above zero and every end price,
\* calculate_true_return with total_distributions = 0 equals
\* calculate_nav_erosion, and a snapshot of a series whose distributions are
\* all zero has true_return_pct = nav_erosion_pct.
C11_ZeroDistributions ==
    /\ \A s \in Prices, e \in Prices :
        s > 0 => calculate_true_return(s, e, 0) = calculate_nav_erosion(s, e)
    /\ (/\ call.op = "calculate_metrics"
        /\ Len(monthly_data) >= 2
        /\ \A i \in 1..Len(monthly_data) : monthly_data[i].distribution = 0) =>
            /\ call.result # None
            /\ call.result.true_return_pct = call.result.nav_erosion_pct

\* a snapshot of a series that pays nothing, starts at a positive price and
\* ends at another one
C11_Witness ==
    /\ call.op = "calculate_metrics"
    /\ Len(monthly_data) >= 2
    /\ \A i \in 1..Len(monthly_data) : monthly_data[i].distribution = 0
    /\ call.result # None
    /\ call.result.start_price > 0
    /\ call.result.end_price # call.result.start_price
    /\ call.result.total_distributions = 0
    /\ call.result.nav_erosion_pct # Zero
    /\ call.result.true_return_pct = call.result.nav_erosion_pct

\* C12: calculate_metrics is deterministic apart from the stamp: an
\* evaluation of the same list with the same thresholds on any other day
\* returns a snapshot equal to the first in every field but calc_date, which
\* is the day of the evaluation, and an evaluation leaves the list it was
\* given as it was.
C12_DeterministicButStamp ==
    /\ [](call.op = "calculate_metrics" =>
            \A d \in 1..MaxDay :
                LET again == calculate_metrics(monthly_data, call.args[1],
                                               call.args[2], d)
                IN  IF call.result = None THEN again = None
                    ELSE /\ again # None
                         /\ again.calc_date = d
                         /\ call.result.calc_date = today
                         /\ [again EXCEPT !.calc_date = today] = call.result)
    /\ [][call'.op = "calculate_metrics" => monthly_data' = monthly_data]_vars

\* a snapshot of an unsorted list, and another day on which the same
\* evaluation is stamped differently
C12_Witness ==
    /\ call.op = "calculate_metrics"
    /\ call.result # None
    /\ monthly_data # sorted(monthly_data)
    /\ call.result.flag = "SELL"
    /\ \E d \in 1..MaxDay :
          /\ d # today
          /\ calculate_metrics(monthly_data, call.args[1], call.args[2], d).calc_date
                # call.result.calc_date

\* what C13 says of one call: 0 for an empty list or a latest close price
\* of 0 or less, else the average distribution times 12 over the latest close
\* price, and never negative
YieldValue ==
    call.op = "calculate_distribution_yield" =>
        /\ monthly_data = <<>> => call.result = Zero
        /\ monthly_data # <<>> =>
            LET price == monthly_data[Latest(monthly_data)].close_price
                total == TotalTo(monthly_data, Len(monthly_data))
            IN  /\ price <= 0 => call.result = Zero
                /\ price > 0 =>
                      call.result = Rat(12 * total, Len(monthly_data) * price)
        /\ RLeq(Zero, call.result)

\* the yield of every permutation of the list is the yield of the list
YieldOrderIndependent ==
    call.op = "calculate_distribution_yield" =>
        \A f \in Perms(Len(monthly_data)) :
            calculate_distribution_yield(Permuted(monthly_data, f)) = call.result

\* C13, as claimed: calculate_distribution_yield returns 0 for an empty list
\* or a latest close price of 0 or less, else (sum of distributions / number
\* of observations) * 12 / latest close price, whatever the input order, and
\* the result is not negative.
C13_DistributionYield == YieldValue /\ YieldOrderIndependent

\* C13, amended: the same, the latest close price being that of the last of
\* the latest-dated observations in the list, and the result being the same
\* for every input order of a list whose dates are unique.
C13_DistributionYieldUniqueDates ==
    YieldValue /\ (UniqueDates(monthly_data) => YieldOrderIndependent)

\* the yield of three observations with unique dates given out of order, the
\* latest price differing from the others
C13_Witness ==
    /\ call.op = "calculate_distribution_yield"
    /\ Len(monthly_data) = 3
    /\ UniqueDates(monthly_data)
    /\ Latest(monthly_data) = 1
    /\ monthly_data[1].close_price = 2
    /\ monthly_data[2].close_price = 1
    /\ monthly_data[3].close_price = 1
    /\ TotalTo(monthly_data, 3) = 2
    /\ call.result = Rat(4, 1)

\* C14: generate_monthly_breakdown of the empty list is the empty sequence,
\* not None, while calculate_metrics of the empty list is None; of a list of
\* one observation the breakdown has one row while calculate_metrics is None.
C14_EmptyAndSingle ==
    /\ (call.op = "generate_monthly_breakdown" /\ Len(monthly_data) <= 1) =>
        /\ Len(call.result) = Len(monthly_data)
        /\ monthly_data = <<>> => (call.result = <<>> /\ call.result # None)
        /\ \A pair \in ThresholdPairs :
              calculate_metrics(monthly_data, pair[1], pair[2], today) = None
    /\ (call.op = "calculate_metrics" /\ Len(monthly_data) <= 1) =>
        /\ call.result = None
        /\ Len(generate_monthly_breakdown(monthly_data)) = Len(monthly_data)

\* the breakdown of a single observation: one row, where the snapshot is None
C14_Witness ==
    /\ call.op = "generate_monthly_breakdown"
    /\ Len(monthly_data) = 1
    /\ Len(call.result) = 1
    /\ call.result[1].close_price = monthly_data[1].close_price
    /\ \E pair \in ThresholdPairs :
          calculate_metrics(monthly_data, pair[1], pair[2], today) = None

\* C15: _refresh_etf_data called with the id of no etf, or with a fetch that
\* reports success = False, returns success = False and leaves every
\* snapshot and every metrics row of every etf as it was.
C15_FailedRefreshLeavesStore ==
    \A etf_id \in EtfIds, data \in get_monthly_data :
        (get_etf(etfs, etf_id) = None \/ ~data.success) =>
            LET r == refresh_etf_data(TheStore, etf_id, data, today)
            IN  /\ ~r.success
                /\ r.store.snapshots = snapshots
                /\ r.store.metrics = metrics
                /\ r.store.etfs = etfs

\* a store that holds the snapshots and a metrics row of one etf and lacks
\* another id, with a fetch that fails
C15_Witness ==
    /\ \E etf_id \in DOMAIN etfs :
          snapshots[etf_id] # {} /\ metrics[etf_id] # <<>>
    /\ \E etf_id \in EtfIds : get_etf(etfs, etf_id) = None
    /\ \E data \in get_monthly_data :
          /\ ~data.success
          /\ \A etf_id \in EtfIds :
                ~refresh_etf_data(TheStore, etf_id, data, today).success

\* what a settings update leaves alone: every metrics row and snapshot, every
\* other etf, and every column of the targeted etf but the two thresholds
SettingsFrame(etf_id) ==
    /\ metrics' = metrics
    /\ snapshots' = snapshots
    /\ DOMAIN etfs' = DOMAIN etfs
    /\ \A i \in DOMAIN etfs :
          IF i = etf_id
          THEN [etfs'[i] EXCEPT !.warn_threshold = etfs[i].warn_threshold,
                                !.sell_threshold = etfs[i].sell_threshold] = etfs[i]
          ELSE etfs'[i] = etfs[i]

\* the flag shown for an etf is the one get_flag gives for the stored erosion
\* and the thresholds the etf had at its last successful refresh
FlagAsOfLastRefresh ==
    \A etf_id \in DOMAIN etfs :
        \A m \in get_latest_metrics(metrics, etf_id) :
            m # None =>
                /\ etf_id \in DOMAIN in_force
                /\ m.flag = get_flag(m.nav_erosion_pct,
                                     in_force[etf_id][1], in_force[etf_id][2])

\* C16: a settings update changes the warn_threshold and sell_threshold of
\* the targeted etf and nothing else, no metrics row, flag or snapshot, so
\* that in every reachable store the flag shown for an etf is the flag of the
\* thresholds in force at its last successful refresh.
C16_ThresholdUpdateFrame ==
    /\ [][\A etf_id \in EtfIds, form \in FormThresholds :
            UpdateEtfSettings(etf_id, form) => SettingsFrame(etf_id)]_vars
    /\ []FlagAsOfLastRefresh

\* two etfs, one of them showing a flag computed before its thresholds were
\* changed which get_flag would not give with the thresholds it has now, the
\* other with the thresholds it was added with
C16_Witness ==
    \E etf_id \in DOMAIN etfs, other \in DOMAIN etfs :
        /\ other # etf_id
        /\ etfs[other].warn_threshold = DefaultWarn
        /\ etfs[other].sell_threshold = DefaultSell
        /\ etf_id \in DOMAIN in_force
        /\ in_force[etf_id] # <<etfs[etf_id].warn_threshold, etfs[etf_id].sell_threshold>>
        /\ \E m \in get_latest_metrics(metrics, etf_id) :
              /\ m # None
              /\ m.flag = "WARNING"
              /\ get_flag(m.nav_erosion_pct, etfs[etf_id].warn_threshold,
                          etfs[etf_id].sell_threshold) = "SELL"

\* what C17 says of the snapshot: with a positive earliest price and no
\* negative distribution true_return_pct is at least nav_erosion_pct
SnapshotReturnAtLeastErosion ==
    (/\ call.op = "calculate_metrics"
     /\ RLt(Zero, call.result.start_price)
     /\ \A i \in 1..Len(call.args[1]) : RLeq(Zero, call.args[1][i].distribution)) =>
        RLeq(call.result.nav_erosion_pct, call.result.true_return_pct)

\* C17, as claimed: for a start price above zero and total_distributions of
\* zero or more calculate_true_return is at least calculate_nav_erosion of
\* the same prices, and equal to it exactly when total_distributions is 0;
\* so is true_return_pct at least nav_erosion_pct in every snapshot of a
\* series with a positive earliest price.
C17_ReturnAtLeastErosion ==
    /\ (/\ call.op = "calculate_true_return"
        /\ RLt(Zero, call.args[1])
        /\ RLeq(Zero, call.args[3])) =>
            LET erosion == calculate_nav_erosion_float(call.args[1], call.args[2])
            IN  /\ RLeq(erosion, call.result)
                /\ call.result = erosion <=> call.args[3] = Zero
    /\ SnapshotReturnAtLeastErosion

\* C17, amended: the true return is at least the erosion, and equal to it
\* when total_distributions is 0; nothing is said of equality otherwise.
C17_ReturnAtLeastErosionRounded ==
    /\ (/\ call.op = "calculate_true_return"
        /\ RLt(Zero, call.args[1])
        /\ RLeq(Zero, call.args[3])) =>
            LET erosion == calculate_nav_erosion_float(call.args[1], call.args[2])
            IN  /\ RLeq(erosion, call.result)
                /\ call.args[3] = Zero => call.result = erosion
    /\ SnapshotReturnAtLeastErosion

\* a true return above the erosion of the same prices, the price having
\* fallen and a distribution having been paid
C17_Witness ==
    /\ call.op = "calculate_true_return"
    /\ RLt(Zero, call.args[1])
    /\ RLt(call.args[2], call.args[1])
    /\ RLt(Zero, call.args[3])
    /\ RLt(calculate_nav_erosion_float(call.args[1], call.args[2]), call.result)
    /\ RLt(call.result, Zero)

===========================================================================
